---- MODULE Spec2Model ----
(***************************************************************************)
(* The answer resolution pipeline of src/bot.js: the POST /api/chat        *)
(* handler with its rate-limit windows (userRequests, userImageRequests),  *)
(* the knowledge lookup (checkFAQ), the image validation, the vision call  *)
(* (callGemini), the text call (callLLaMA) with its circuit breaker        *)
(* (rateLimitHit, rateLimitHitTime) and the static fallback.               *)
(*                                                                         *)
(* Node runs one handler at a time until it awaits I/O, so one action is   *)
(* the code between two suspension points.  A handler suspends in          *)
(*   awaitImage      fetch(imageUrl) and arrayBuffer()   (bot.js 149-154)  *)
(*   awaitGemini     fetch(gemini) and text()/json()     (bot.js 196-211)  *)
(*   awaitLLaMA      fetch(openrouter)                   (bot.js 261)      *)
(*   awaitLLaMAText  response.text() of a non-OK answer  (bot.js 297)      *)
(*   awaitLLaMAJson  response.json() of an OK answer     (bot.js 302)      *)
(* The two awaits of awaitImage, and of awaitGemini, are one step each:    *)
(* the code between them reads and writes nothing shared and no clock.     *)
(*                                                                         *)
(* Time is counted in ticks of the clock `now` (Date.now()); the windows   *)
(* and the cooldown are lengths in ticks.                                  *)
(***************************************************************************)
EXTENDS Integers, Sequences, FiniteSets, TLC

(***************************************************************************)
(* Bounds of the model.                                                    *)
(***************************************************************************)
MaxTime == 3
NumReq == 2
MaxRequests == 2
MaxTextRequests == 3

(***************************************************************************)
(* Program constants.  The four rate settings are read from the            *)
(* environment (parseInt(process.env.X) || default), so any value >= 1 is  *)
(* a configuration of the program; the model fixes a small one.  The       *)
(* cooldown (5 minutes in the code) is scaled to ticks the same way.       *)
(***************************************************************************)
TEXT_RATE_LIMIT == 2
TEXT_RATE_INTERVAL == 2
IMAGE_RATE_LIMIT == 1
IMAGE_RATE_INTERVAL == 2
COOLDOWN == 2
\* FAQ_MATCH_THRESHOLD 0.6, as a rating in hundredths
FAQ_MATCH_THRESHOLD == 60
\* 1.2 * 1024 * 1024 = 1258291.2; for a whole number of bytes,
\* sizeBytes > 1258291.2 is sizeBytes > 1258291
maxSize == 1258291
\* rateLimitHitTime = null
null == -1
\* a function's `return null` where it otherwise returns a string
none == "<null>"

(***************************************************************************)
(* Inputs.                                                                 *)
(***************************************************************************)
Reqs == 1..NumReq
Clients == {"10.0.0.1", "10.0.0.2"}
\* the client of the requests that carry images
Client == "10.0.0.1"
Messages == {"", "Hours", "price", "joke"}
\* the questions put to checkFAQ
Queries == Messages \cup {"hours", "pricked", "prim"}
ImageUrls == {"", "https://cdn.example/a.png", "ftp://cdn.example/a.png", "not a url"}
MimeTypes == {"", "image/png", "image/gif"}
\* an inline payload, by the length of its base64 text and its padding
NoBase64 == [chars |-> 0, pad |-> 0]
Base64s ==
  { NoBase64,
    [chars |-> 1677724, pad |-> 2],
    [chars |-> 1677724, pad |-> 1] }
\* the content of faq.json
FaqFiles ==
  { << >>,
    << [question |-> "Hours", answer |-> "9am-6pm Mon-Sat"],
       [question |-> "Price", answer |-> ""],
       [question |-> "HOURS", answer |-> "Closed on Sunday"] >> }
\* what a fetch of imageUrl may bring
ImageFetchOutcomes ==
  { [kind |-> "throw", size |-> 0, contentType |-> ""],
    [kind |-> "notOk", size |-> 0, contentType |-> ""] }
  \cup [kind : {"ok"}, size : {maxSize, maxSize + 1}, contentType : {"", "text/html"}]
GeminiOutcomes == {"throw", "notOk", "okEmpty", "okText"}
LLaMAFetchOutcomes == {"throw", "429", "notOk", "ok"}
LLaMAJsonOutcomes == {"throw", "empty", "text"}

(***************************************************************************)
(* The replies.                                                            *)
(***************************************************************************)
NoMessageReply == "No message received."
RateLimitReply == "Too many requests. Please slow down."
ImageRateLimitReply == "Too many image requests. Please slow down."
UnsupportedTypeReply(mimeType) == "Unsupported image type: " \o mimeType \o ". Please upload JPEG, PNG, or WebP."
ImageTooLargeReply == "Image too large (1.2 MB). Please upload under 1.2 MB."
InvalidUrlProtocolReply == "Invalid image URL. Only HTTP/HTTPS URLs are allowed."
InvalidUrlFormatReply == "Invalid image URL format."
GeminiTooLargeReply == "Please upload an image smaller than 1.2 MB."
BreakerReply == "Service temporarily limited. Please try again in a few minutes."
FallbackReply == "Sorry, I cannot answer that right now. Please try again later."
GeminiText == "<gemini text>"
LLaMAText == "<llama text>"

VARIABLES
  now,                \* Date.now()
  userRequests,       \* Map ip -> timestamps (text class)
  userImageRequests,  \* Map ip -> timestamps (image class)
  rateLimitHit,
  rateLimitHitTime,
  requestCount,
  faq,
  faqLoaded,
  GEMINI_API_KEY,     \* process.env.GEMINI_API_KEY is set
  OPENROUTER_API_KEY, \* process.env.OPENROUTER_API_KEY is set
  req,                \* the handlers in flight, one per slot
  res,                \* << >>, or the handler that just returned
  textEvents,         \* history: every timestamp updateRateLimit pushed, per ip
  imageEvents,        \* history: every timestamp updateImageRateLimit pushed
  overloads,          \* history: the times of the 429s no text stage has
                      \* outlived: a 429 at t leaves when a handler reaches
                      \* the text stage at t + COOLDOWN or later
  arrivalTimes,       \* history (SpecText): when the requests of an ip arrived
                      \* that are less than TEXT_RATE_INTERVAL old
  arrivals,           \* history: how many requests have arrived
  visionOverloads     \* history (SpecVision): the times of the 429s of the
                      \* vision provider

vars ==
  << now, userRequests, userImageRequests, rateLimitHit, rateLimitHitTime,
     requestCount, faq, faqLoaded, GEMINI_API_KEY,
     OPENROUTER_API_KEY, req, res, textEvents, imageEvents, overloads, arrivalTimes,
     arrivals, visionOverloads >>

breaker == << rateLimitHit, rateLimitHitTime, overloads >>
config == << GEMINI_API_KEY, OPENROUTER_API_KEY >>
knowledge == << faq, faqLoaded >>

(***************************************************************************)
(* JavaScript values.                                                      *)
(***************************************************************************)
\* if (s): a string is truthy unless it is empty; null and undefined are not
\* truthiness that forgets null
TruthyOfNull(s) == s # ""

Truthy(s) == s # "" /\ s # none
\* if (imageBase64)
TruthyBase64(b) == b.chars > 0
\* Buffer.from(imageBase64, "base64").length
DecodedLength(b) == (b.chars \div 4) * 3 - b.pad
\* String.prototype.toLowerCase on the strings of the model
toLowerCase(s) ==
  CASE s \in {"Hours", "HOURS"} -> "hours"
    [] s = "Price" -> "price"
    [] OTHER -> s
\* new URL(imageUrl).protocol, or "TypeError" when the constructor throws
URLProtocol(u) ==
  CASE u = "https://cdn.example/a.png" -> "https:"
    [] u = "ftp://cdn.example/a.png" -> "ftp:"
    [] OTHER -> "TypeError"

(***************************************************************************)
(* Anti-spam tracking (bot.js 66-107).                                     *)
(***************************************************************************)
\* Ensure that also pushes the time of the check
EnsureStamping(map, ip) ==
  IF ip \in DOMAIN map THEN [map EXCEPT ![ip] = Append(@, now)]
  ELSE map @@ (ip :> << now >>)

\* if (!map.has(ip)) map.set(ip, [])
Ensure(map, ip) == IF ip \in DOMAIN map THEN map ELSE map @@ (ip :> << >>)
\* timestamps.filter(ts => now - ts < interval)
\* the filter with <= for <: an event exactly one interval old still counts
FilterInclusive(timestamps, t, interval) ==
  SelectSeq(timestamps, LAMBDA ts : t - ts <= interval)

\* timestamps.filter(ts => now - ts < INTERVAL)
Filter(timestamps, t, interval) == SelectSeq(timestamps, LAMBDA ts : t - ts < interval)

\* isRateLimited with > for >=: one request too many is admitted
isRateLimitedOffByOne(ip) ==
  Len(Filter(Ensure(userRequests, ip)[ip], now, TEXT_RATE_INTERVAL)) > TEXT_RATE_LIMIT

\* isRateLimited that counts every stored timestamp, old ones included
isRateLimitedUnfiltered(ip) ==
  Len(Ensure(userRequests, ip)[ip]) >= TEXT_RATE_LIMIT

isRateLimited(ip) ==
  Len(Filter(Ensure(userRequests, ip)[ip], now, TEXT_RATE_INTERVAL)) >= TEXT_RATE_LIMIT

isImageRateLimited(ip) ==
  Len(Filter(Ensure(userImageRequests, ip)[ip], now, IMAGE_RATE_INTERVAL)) >= IMAGE_RATE_LIMIT

\* updateRateLimit that pushes and does not filter
updateRateLimitNoPrune(map, ip) ==
  [Ensure(map, ip) EXCEPT ![ip] = Append(@, now)]

updateRateLimit(map, ip) ==
  [Ensure(map, ip) EXCEPT ![ip] = Filter(Append(@, now), now, TEXT_RATE_INTERVAL)]

\* updateImageRateLimit on one array shared by all the clients
updateImageRateLimitShared(map, ip) ==
  [k \in DOMAIN Ensure(map, ip) |->
     Filter(Append(Ensure(map, ip)[k], now), now, IMAGE_RATE_INTERVAL)]

updateImageRateLimit(map, ip) ==
  [Ensure(map, ip) EXCEPT ![ip] = Filter(Append(@, now), now, IMAGE_RATE_INTERVAL)]

(***************************************************************************)
(* FAQ checker (bot.js 112-129).                                           *)
(***************************************************************************)
\* stringSimilarity.compareTwoStrings on the strings of the model, in
\* hundredths: twice the shared bigrams over the bigrams of both strings.
\* "pricked" (6 bigrams) shares pr, ri, ic with "price" (4): 6/10; "prim"
\* (3 bigrams) shares pr, ri with it: 4/7; the other pairs share none.
compareTwoStrings(a, b) ==
  CASE a = b -> 100
    [] {a, b} = {"pricked", "price"} -> 60
    [] {a, b} = {"prim", "price"} -> 57
    [] OTHER -> 0

\* findBestMatch with >= for >: of the entries that tie, the last one wins
findBestMatchLast(main, targets) ==
  LET rating(i) == compareTwoStrings(main, targets[i])
      best == CHOOSE i \in 1..Len(targets) :
                /\ \A j \in 1..Len(targets) : rating(j) <= rating(i)
                /\ \A j \in (i + 1)..Len(targets) : rating(j) < rating(i)
  IN  [bestMatchIndex |-> best, rating |-> rating(best)]

\* stringSimilarity.findBestMatch: the ratings and the first of the best
findBestMatch(main, targets) ==
  LET rating(i) == compareTwoStrings(main, targets[i])
      best == CHOOSE i \in 1..Len(targets) :
                /\ \A j \in 1..Len(targets) : rating(j) <= rating(i)
                /\ \A j \in 1..(i - 1) : rating(j) < rating(i)
  IN  [bestMatchIndex |-> best, rating |-> rating(best)]

\* checkFAQ without the toLowerCase of the question
checkFAQCaseSensitive(question) ==
  IF ~faqLoaded \/ Len(faq) = 0 THEN none
  ELSE LET questions == [i \in 1..Len(faq) |-> toLowerCase(faq[i].question)]
           matches == findBestMatch(question, questions)
       IN  IF matches.rating >= FAQ_MATCH_THRESHOLD
           THEN faq[matches.bestMatchIndex].answer
           ELSE none

checkFAQ(question) ==
  IF ~faqLoaded \/ Len(faq) = 0 THEN none
  ELSE LET questions == [i \in 1..Len(faq) |-> toLowerCase(faq[i].question)]
           matches == findBestMatch(toLowerCase(question), questions)
       IN  IF matches.rating >= FAQ_MATCH_THRESHOLD
           THEN faq[matches.bestMatchIndex].answer
           ELSE none

(***************************************************************************)
(* The handlers in flight.  A slot keeps what the rest of the handler      *)
(* reads (ip; imageBase64 and mimeType until the parts are built) and      *)
(* what it has done so far: the parts it sent to Gemini, and how often it  *)
(* called each provider.                                                   *)
(***************************************************************************)
Idle ==
  [pc |-> "idle", ip |-> "", hasImage |-> FALSE, imageBase64 |-> NoBase64,
   mimeType |-> "", parts |-> << >>, geminiCalls |-> 0, llamaCalls |-> 0]

\* the handler returns after res.json({ reply }) at line `site`
Reply(rq, site, reply, ur, uir, recordText, recordImage) ==
  [returned |-> TRUE, site |-> site, replies |-> << reply >>, rq |-> rq,
   userRequests |-> ur, userImageRequests |-> uir,
   recordText |-> recordText, recordImage |-> recordImage,
   rateLimitHit |-> rateLimitHit, rateLimitHitTime |-> rateLimitHitTime]

\* the handler awaits
Await(rq, ur, uir, hit, hitTime) ==
  [returned |-> FALSE, site |-> 0, replies |-> << >>, rq |-> rq,
   userRequests |-> ur, userImageRequests |-> uir,
   recordText |-> FALSE, recordImage |-> FALSE,
   rateLimitHit |-> hit, rateLimitHitTime |-> hitTime]

(***************************************************************************)
(* Meta-LLaMA (bot.js 231-310) and steps 3 and 4 of the handler.           *)
(***************************************************************************)
\* Fallback without its res.json: the handler returns and sends nothing
FallbackNoReply(rq, ur, uir) ==
  [Reply(rq, 454, FallbackReply, ur, uir, FALSE, FALSE) EXCEPT !.replies = << >>]

\* 4. Fallback (bot.js 452-454)
Fallback(rq, ur, uir) ==
  Reply(rq, 454, FallbackReply, ur, uir, FALSE, FALSE)

\* what the handler does with callLLaMA's result (bot.js 439-450)
AfterLLaMA(rq, aiAnswer, ur, uir) ==
  IF Truthy(aiAnswer)
  THEN Reply(rq, 444, aiAnswer, updateRateLimit(ur, rq.ip), uir, TRUE, FALSE)
  ELSE Fallback(rq, ur, uir)

\* the circuit breaker check (bot.js 246-249): the call is skipped
\* the cooldown test with the comparison turned round
BreakerActiveInverted ==
  rateLimitHit /\ now - rateLimitHitTime > COOLDOWN

BreakerActive ==
  rateLimitHit /\ now - rateLimitHitTime < COOLDOWN

\* step 3 up to the await of callLLaMA's fetch (bot.js 437-439, 231-261)
\* TextStage whose reset clears the flag and leaves the time
TextStageKeepsTime(rq, ur, uir) ==
  IF ~OPENROUTER_API_KEY THEN AfterLLaMA(rq, none, ur, uir)
  ELSE IF BreakerActive THEN AfterLLaMA(rq, BreakerReply, ur, uir)
  ELSE Await([rq EXCEPT !.pc = "awaitLLaMA", !.llamaCalls = @ + 1], ur, uir,
             FALSE, rateLimitHitTime)

TextStage(rq, ur, uir) ==
  IF ~OPENROUTER_API_KEY THEN AfterLLaMA(rq, none, ur, uir)
  ELSE IF BreakerActive THEN AfterLLaMA(rq, BreakerReply, ur, uir)
  ELSE Await([rq EXCEPT !.pc = "awaitLLaMA", !.llamaCalls = @ + 1], ur, uir,
             FALSE, IF rateLimitHit THEN null ELSE rateLimitHitTime)

\* LLaMAFetched whose 429 branch does not trip the breaker
LLaMAFetchedNoTrip(rq, outcome) ==
  CASE outcome \in {"throw", "429"} ->
         AfterLLaMA(rq, IF outcome = "429" THEN BreakerReply ELSE none,
                    userRequests, userImageRequests)
    [] outcome = "notOk" ->
         Await([rq EXCEPT !.pc = "awaitLLaMAText"], userRequests,
               userImageRequests, rateLimitHit, rateLimitHitTime)
    [] outcome = "ok" ->
         Await([rq EXCEPT !.pc = "awaitLLaMAJson"], userRequests,
               userImageRequests, rateLimitHit, rateLimitHitTime)

\* LLaMAFetched whose 429 branch leaves the time of a breaker that is tripped
LLaMAFetchedKeepsFirst(rq, outcome) ==
  CASE outcome = "throw" -> AfterLLaMA(rq, none, userRequests, userImageRequests)
    [] outcome = "429" ->
         [AfterLLaMA(rq, BreakerReply, userRequests, userImageRequests)
            EXCEPT !.rateLimitHit = TRUE,
                   !.rateLimitHitTime = IF rateLimitHit THEN rateLimitHitTime
                                        ELSE now]
    [] outcome = "notOk" ->
         Await([rq EXCEPT !.pc = "awaitLLaMAText"], userRequests,
               userImageRequests, rateLimitHit, rateLimitHitTime)
    [] outcome = "ok" ->
         Await([rq EXCEPT !.pc = "awaitLLaMAJson"], userRequests,
               userImageRequests, rateLimitHit, rateLimitHitTime)

\* fetch(openrouter) settles (bot.js 261-300, 306-309)
LLaMAFetched(rq, outcome) ==
  CASE outcome = "throw" -> AfterLLaMA(rq, none, userRequests, userImageRequests)
    [] outcome = "429" ->
         [AfterLLaMA(rq, BreakerReply, userRequests, userImageRequests)
            EXCEPT !.rateLimitHit = TRUE, !.rateLimitHitTime = now]
    [] outcome = "notOk" ->
         Await([rq EXCEPT !.pc = "awaitLLaMAText"], userRequests,
               userImageRequests, rateLimitHit, rateLimitHitTime)
    [] outcome = "ok" ->
         Await([rq EXCEPT !.pc = "awaitLLaMAJson"], userRequests,
               userImageRequests, rateLimitHit, rateLimitHitTime)

\* response.text() of a non-OK answer settles (bot.js 296-300, 306-309)
LLaMAErrorRead(rq) ==
  AfterLLaMA(rq, none, userRequests, userImageRequests)

\* response.json() settles (bot.js 302-309)
LLaMAJsonRead(rq, outcome) ==
  AfterLLaMA(rq, IF outcome = "text" THEN LLaMAText ELSE none,
             userRequests, userImageRequests)

(***************************************************************************)
(* Gemini vision (bot.js 134-219) and step 2 of the handler.               *)
(***************************************************************************)
\* AfterGemini that goes on to step 3 whatever callGemini returned
AfterGeminiAlwaysText(rq, visionAnswer, ur, uir) ==
  TextStage(rq, ur, uir)

\* what the handler does with callGemini's result (bot.js 420-433)
AfterGemini(rq, visionAnswer, ur, uir) ==
  IF Truthy(visionAnswer)
  THEN Reply(rq, 426, visionAnswer,
             updateRateLimit(ur, rq.ip), updateImageRateLimit(uir, rq.ip),
             TRUE, TRUE)
  ELSE TextStage(rq, ur, uir)

\* case B and the start of the Gemini fetch (bot.js 175-203)
GeminiCaseB(rq, ur, uir) ==
  IF TruthyBase64(rq.imageBase64)
  THEN IF DecodedLength(rq.imageBase64) > maxSize
       THEN AfterGemini(rq, GeminiTooLargeReply, ur, uir)
       ELSE Await([rq EXCEPT
                     !.pc = "awaitGemini",
                     !.geminiCalls = @ + 1,
                     !.parts = Append(@, [mime_type |->
                                            IF Truthy(rq.mimeType)
                                            THEN rq.mimeType ELSE "image/jpeg",
                                          size |-> DecodedLength(rq.imageBase64),
                                          source |-> "imageBase64"])],
                  ur, uir, rateLimitHit, rateLimitHitTime)
  ELSE Await([rq EXCEPT !.pc = "awaitGemini", !.geminiCalls = @ + 1],
             ur, uir, rateLimitHit, rateLimitHitTime)

\* callGemini up to its first await (bot.js 134-149)
callGemini(rq, imageUrl, ur, uir) ==
  IF ~GEMINI_API_KEY THEN AfterGemini(rq, none, ur, uir)
  ELSE IF Truthy(imageUrl)
  THEN Await([rq EXCEPT !.pc = "awaitImage"], ur, uir, rateLimitHit,
             rateLimitHitTime)
  ELSE GeminiCaseB(rq, ur, uir)

\* ImageFetched without the size test of bot.js 156
ImageFetchedNoSizeCheck(rq, outcome) ==
  IF outcome.kind # "ok"
  THEN AfterGemini(rq, none, userRequests, userImageRequests)
  ELSE GeminiCaseB([rq EXCEPT !.parts =
                      Append(@, [mime_type |->
                                   IF Truthy(outcome.contentType)
                                   THEN outcome.contentType ELSE "image/jpeg",
                                 size |-> outcome.size,
                                 source |-> "imageUrl"])],
                   userRequests, userImageRequests)

\* fetch(imageUrl) and arrayBuffer() settle (bot.js 149-173, 215-218)
ImageFetched(rq, outcome) ==
  IF outcome.kind # "ok"
  THEN AfterGemini(rq, none, userRequests, userImageRequests)
  ELSE IF outcome.size > maxSize
  THEN AfterGemini(rq, GeminiTooLargeReply, userRequests, userImageRequests)
  ELSE GeminiCaseB([rq EXCEPT !.parts =
                      Append(@, [mime_type |->
                                   IF Truthy(outcome.contentType)
                                   THEN outcome.contentType ELSE "image/jpeg",
                                 size |-> outcome.size,
                                 source |-> "imageUrl"])],
                   userRequests, userImageRequests)

\* fetch(gemini) and the reading of its body settle (bot.js 196-218)
GeminiFetched(rq, outcome) ==
  AfterGemini(rq, IF outcome = "okText" THEN GeminiText ELSE none,
              userRequests, userImageRequests)

(***************************************************************************)
(* Main chat endpoint (bot.js 345-455).                                    *)
(***************************************************************************)
\* the allow list with image/gif added
allowedTypesWithGif == {"image/jpeg", "image/png", "image/webp", "image/gif"}

allowedTypes == {"image/jpeg", "image/png", "image/webp"}

\* step 2, image processing (bot.js 374-434), then step 3
ImageStage(rq, imageUrl, imageBase64, imageMimeType, ur, uir) ==
  IF TruthyBase64(imageBase64) \/ Truthy(imageMimeType) \/ Truthy(imageUrl)
  THEN LET mimeType == IF Truthy(imageMimeType) THEN imageMimeType
                       ELSE "image/jpeg"
       IN  IF mimeType \notin allowedTypes
           THEN Reply(rq, 380, UnsupportedTypeReply(mimeType), ur, uir, FALSE, FALSE)
           ELSE IF TruthyBase64(imageBase64) /\ DecodedLength(imageBase64) > maxSize
           THEN Reply(rq, 392, ImageTooLargeReply, ur, uir, FALSE, FALSE)
           ELSE IF Truthy(imageUrl) /\ URLProtocol(imageUrl) = "TypeError"
           THEN Reply(rq, 411, InvalidUrlFormatReply, ur, uir, FALSE, FALSE)
           ELSE IF Truthy(imageUrl)
                   /\ URLProtocol(imageUrl) \notin {"http:", "https:"}
           THEN Reply(rq, 405, InvalidUrlProtocolReply, ur, uir, FALSE, FALSE)
           ELSE callGemini([rq EXCEPT !.imageBase64 = imageBase64,
                                      !.mimeType = mimeType],
                           imageUrl, ur, uir)
  ELSE TextStage(rq, ur, uir)

\* the handler with the FAQ check moved before the rate checks
HandlerFAQFirst(ip, message, imageUrl, imageBase64, imageMimeType) ==
  LET hasImage == Truthy(imageUrl) \/ TruthyBase64(imageBase64)
      rq == [Idle EXCEPT !.pc = "running", !.ip = ip, !.hasImage = hasImage]
      ur == Ensure(userRequests, ip)
      uir == IF hasImage THEN Ensure(userImageRequests, ip)
             ELSE userImageRequests
      faqAnswer == checkFAQ(message)
  IN  IF ~Truthy(message)
      THEN Reply(rq, 350, NoMessageReply, userRequests, userImageRequests,
                 FALSE, FALSE)
      ELSE IF Truthy(faqAnswer)
      THEN Reply(rq, 370, faqAnswer, updateRateLimit(ur, ip), userImageRequests,
                 TRUE, FALSE)
      ELSE IF isRateLimited(ip)
      THEN Reply(rq, 356, RateLimitReply, ur, userImageRequests, FALSE, FALSE)
      ELSE IF hasImage /\ isImageRateLimited(ip)
      THEN Reply(rq, 361, ImageRateLimitReply, ur, uir, FALSE, FALSE)
      ELSE ImageStage(rq, imageUrl, imageBase64, imageMimeType, ur, uir)

\* the handler from its entry to its first await or its reply
\* (bot.js 345-371, then step 2)
Handler(ip, message, imageUrl, imageBase64, imageMimeType) ==
  LET hasImage == Truthy(imageUrl) \/ TruthyBase64(imageBase64)
      rq == [Idle EXCEPT !.pc = "running", !.ip = ip, !.hasImage = hasImage]
      ur == Ensure(userRequests, ip)
      uir == IF hasImage THEN Ensure(userImageRequests, ip)
             ELSE userImageRequests
      faqAnswer == checkFAQ(message)
  IN  IF ~Truthy(message)
      THEN Reply(rq, 350, NoMessageReply, userRequests, userImageRequests,
                 FALSE, FALSE)
      ELSE IF isRateLimited(ip)
      THEN Reply(rq, 356, RateLimitReply, ur, userImageRequests, FALSE, FALSE)
      ELSE IF hasImage /\ isImageRateLimited(ip)
      THEN Reply(rq, 361, ImageRateLimitReply, ur, uir, FALSE, FALSE)
      ELSE IF Truthy(faqAnswer)
      THEN Reply(rq, 370, faqAnswer, updateRateLimit(ur, ip), uir, TRUE, FALSE)
      ELSE ImageStage(rq, imageUrl, imageBase64, imageMimeType, ur, uir)

(***************************************************************************)
(* The steps of the server.                                                *)
(***************************************************************************)
\* the handler in slot r ran up to its next await or its return
Ran(r, e) ==
  /\ req' = [req EXCEPT ![r] = IF e.returned THEN Idle ELSE e.rq]
  /\ res' = IF e.returned
            THEN << [ip |-> e.rq.ip, hasImage |-> e.rq.hasImage,
                     site |-> e.site, replies |-> e.replies,
                     geminiCalls |-> e.rq.geminiCalls,
                     llamaCalls |-> e.rq.llamaCalls,
                     recordText |-> e.recordText,
                     recordImage |-> e.recordImage] >>
            ELSE res
  /\ userRequests' = e.userRequests
  /\ userImageRequests' = e.userImageRequests
  /\ rateLimitHit' = e.rateLimitHit
  /\ rateLimitHitTime' = e.rateLimitHitTime
  /\ textEvents' = IF e.recordText
                   THEN [textEvents EXCEPT ![e.rq.ip] = Append(@, now)]
                   ELSE textEvents
  /\ imageEvents' = IF e.recordImage
                    THEN [imageEvents EXCEPT ![e.rq.ip] = Append(@, now)]
                    ELSE imageEvents
  /\ UNCHANGED << now, config, knowledge >>

\* the handler reached step 3 in this run: it awaits callLLaMA's fetch, or
\* it returned from bot.js 444 or 454
ReachedTextStage(e) ==
  e.rq.pc = "awaitLLaMA" \/ (e.returned /\ e.site \in {444, 454})

\* the 429s that this run of the handler leaves in the history
Outlived(e) ==
  IF ReachedTextStage(e) THEN {t \in overloads : now - t < COOLDOWN}
  ELSE overloads

\* a request arrives; the lowest free slot takes it
Receive(r, ip, message, imageUrl, imageBase64, imageMimeType) ==
  /\ Len(res) = 0
  /\ req[r].pc = "idle"
  /\ \A q \in 1..(r - 1) : req[q].pc # "idle"
  /\ arrivals' = arrivals + 1
  /\ LET e == Handler(ip, message, imageUrl, imageBase64, imageMimeType)
     IN  Ran(r, e) /\ overloads' = Outlived(e)
  /\ UNCHANGED << requestCount, visionOverloads >>

ImageSettles(r, outcome) ==
  /\ Len(res) = 0
  /\ req[r].pc = "awaitImage"
  /\ LET e == ImageFetched(req[r], outcome)
     IN  Ran(r, e) /\ overloads' = Outlived(e)
  /\ UNCHANGED << requestCount, arrivalTimes, arrivals,
                  visionOverloads >>

GeminiSettles(r, outcome) ==
  /\ Len(res) = 0
  /\ req[r].pc = "awaitGemini"
  /\ LET e == GeminiFetched(req[r], outcome)
     IN  Ran(r, e) /\ overloads' = Outlived(e)
  /\ visionOverloads' = IF outcome = "429" THEN visionOverloads \cup {now}
                        ELSE visionOverloads
  /\ UNCHANGED << requestCount, arrivalTimes, arrivals >>

\* bot.js 281-283 counts every fetch that did not throw
LLaMASettles(r, outcome) ==
  /\ Len(res) = 0
  /\ req[r].pc = "awaitLLaMA"
  /\ requestCount' = IF outcome = "throw" THEN requestCount ELSE requestCount + 1
  /\ overloads' = IF outcome = "429" THEN overloads \cup {now} ELSE overloads
  /\ Ran(r, LLaMAFetched(req[r], outcome))
  /\ UNCHANGED << arrivalTimes, arrivals,
                  visionOverloads >>

LLaMATextSettles(r) ==
  /\ Len(res) = 0
  /\ req[r].pc = "awaitLLaMAText"
  /\ Ran(r, LLaMAErrorRead(req[r]))
  /\ UNCHANGED << requestCount, overloads, arrivalTimes, arrivals,
                  visionOverloads >>

LLaMAJsonSettles(r, outcome) ==
  /\ Len(res) = 0
  /\ req[r].pc = "awaitLLaMAJson"
  /\ Ran(r, LLaMAJsonRead(req[r], outcome))
  /\ UNCHANGED << requestCount, overloads, arrivalTimes, arrivals,
                  visionOverloads >>

\* the reply leaves; the server takes its next step
Respond ==
  /\ Len(res) = 1
  /\ res' = << >>
  /\ UNCHANGED << now, userRequests, userImageRequests, breaker, requestCount,
                  knowledge, config, req, textEvents, imageEvents,
                  arrivalTimes, arrivals,
                  visionOverloads >>

\* the clock advances
Tick ==
  /\ Len(res) = 0
  /\ now < MaxTime
  /\ now' = now + 1
  /\ arrivalTimes' = [ip \in Clients |->
                        SelectSeq(arrivalTimes[ip],
                                  LAMBDA t : now' - t < TEXT_RATE_INTERVAL)]
  /\ UNCHANGED << userRequests, userImageRequests, breaker, requestCount,
                  knowledge, config, req, res, textEvents, imageEvents,
                  arrivals,
                  visionOverloads >>

\* Load FAQ (bot.js 52-57): readFile and JSON.parse succeed.  When either
\* throws (bot.js 58-60) nothing changes: faq = [] and faqLoaded = false stay
LoadFAQ(file) ==
  /\ Len(res) = 0
  /\ ~faqLoaded
  /\ faq' = file
  /\ faqLoaded' = TRUE
  /\ UNCHANGED << now, userRequests, userImageRequests, breaker, requestCount,
                  config, req, res, textEvents, imageEvents,
                  arrivalTimes, arrivals,
                  visionOverloads >>

Init ==
  /\ now = 0
  /\ userRequests = << >>
  /\ userImageRequests = << >>
  /\ rateLimitHit = FALSE
  /\ rateLimitHitTime = null
  /\ requestCount = 0
  /\ faq = << >>
  /\ faqLoaded = FALSE
  /\ GEMINI_API_KEY \in BOOLEAN
  /\ OPENROUTER_API_KEY \in BOOLEAN
  /\ req = [r \in Reqs |-> Idle]
  /\ res = << >>
  /\ textEvents = [ip \in Clients |-> << >>]
  /\ imageEvents = [ip \in Clients |-> << >>]
  /\ overloads = {}
  /\ arrivalTimes = [ip \in Clients |-> << >>]
  /\ arrivals = 0
  /\ visionOverloads = {}

\* the steps that are not the arrival of a request
Settle ==
  \/ \E r \in Reqs, outcome \in LLaMAFetchOutcomes : LLaMASettles(r, outcome)
  \/ \E r \in Reqs : LLaMATextSettles(r)
  \/ \E r \in Reqs, outcome \in LLaMAJsonOutcomes : LLaMAJsonSettles(r, outcome)
  \/ Respond
  \/ Tick
  \/ \E file \in FaqFiles : LoadFAQ(file)

\* every kind of request, from one client
Next ==
  \/ \E r \in Reqs, message \in Messages, imageUrl \in ImageUrls,
        imageBase64 \in Base64s, imageMimeType \in MimeTypes :
       /\ arrivals < MaxRequests
       /\ Receive(r, Client, message, imageUrl, imageBase64, imageMimeType)
       /\ UNCHANGED arrivalTimes
  \/ \E r \in Reqs, outcome \in ImageFetchOutcomes : ImageSettles(r, outcome)
  \/ \E r \in Reqs, outcome \in GeminiOutcomes : GeminiSettles(r, outcome)
  \/ Settle

Spec == Init /\ [][Next]_vars

\* requests with and without an image, from every client
NextKeys ==
  \/ \E r \in Reqs, ip \in Clients, message \in {"Hours", "joke"},
        imageUrl \in {"", "https://cdn.example/a.png"} :
       /\ arrivals < MaxTextRequests
       /\ Receive(r, ip, message, imageUrl, NoBase64, "")
       /\ UNCHANGED arrivalTimes
  \/ \E r \in Reqs, outcome \in ImageFetchOutcomes : ImageSettles(r, outcome)
  \/ \E r \in Reqs, outcome \in GeminiOutcomes : GeminiSettles(r, outcome)
  \/ Settle

SpecKeys == Init /\ [][NextKeys]_vars

\* the fetch of a provider never settles: node-fetch is called without a
\* timeout or an abort signal (bot.js 196-203, 261-279), so the handler
\* stays at its await
NeverSettles(r) ==
  /\ Len(res) = 0
  /\ req[r].pc \in {"awaitGemini", "awaitLLaMA"}
  /\ req' = [req EXCEPT ![r].pc = "awaitForever"]
  /\ UNCHANGED << now, userRequests, userImageRequests, rateLimitHit,
                  rateLimitHitTime, requestCount, faq, faqLoaded, config, res,
                  textEvents, imageEvents, overloads, arrivalTimes, arrivals,
                  visionOverloads >>

\* Resumes for a server that runs no handler while another one is suspended
\* on a provider that never answers
ResumesUnlessHung(r) ==
  /\ \A q \in Reqs : req[q].pc # "awaitForever"
  /\ \/ \E outcome \in ImageFetchOutcomes : ImageSettles(r, outcome)
     \/ \E outcome \in GeminiOutcomes : GeminiSettles(r, outcome)
     \/ \E outcome \in LLaMAFetchOutcomes : LLaMASettles(r, outcome)
     \/ LLaMATextSettles(r)
     \/ \E outcome \in LLaMAJsonOutcomes : LLaMAJsonSettles(r, outcome)

\* the handler in slot r is resumed by an answer that has come
Resumes(r) ==
  \/ \E outcome \in ImageFetchOutcomes : ImageSettles(r, outcome)
  \/ \E outcome \in GeminiOutcomes : GeminiSettles(r, outcome)
  \/ \E outcome \in LLaMAFetchOutcomes : LLaMASettles(r, outcome)
  \/ LLaMATextSettles(r)
  \/ \E outcome \in LLaMAJsonOutcomes : LLaMAJsonSettles(r, outcome)

\* requests of one client, with providers that may never answer
NextLive ==
  \/ \E r \in Reqs, imageUrl \in {"", "https://cdn.example/a.png"} :
       /\ arrivals < MaxRequests
       /\ Receive(r, Client, "joke", imageUrl, NoBase64, "")
       /\ UNCHANGED arrivalTimes
  \/ \E r \in Reqs : Resumes(r)
  \/ \E r \in Reqs : NeverSettles(r)
  \/ Respond
  \/ Tick
  \/ \E file \in FaqFiles : LoadFAQ(file)

\* the event loop runs every handler whose answer has come and delivers
\* every reply; the clock goes on
SpecLive ==
  /\ Init
  /\ [][NextLive]_vars
  /\ WF_vars(Respond)
  /\ WF_vars(Tick)
  /\ \A r \in Reqs : WF_vars(Resumes(r))

\* requests with a valid image or none, of one client, with a vision
\* provider that may answer 429
NextVision ==
  \/ \E r \in Reqs, imageUrl \in {"", "https://cdn.example/a.png"},
        imageBase64 \in {b \in Base64s : DecodedLength(b) <= maxSize} :
       /\ arrivals < MaxRequests
       /\ Receive(r, Client, "joke", imageUrl, imageBase64, "")
       /\ UNCHANGED arrivalTimes
  \/ \E r \in Reqs, outcome \in ImageFetchOutcomes : ImageSettles(r, outcome)
  \/ \E r \in Reqs, outcome \in GeminiOutcomes \cup {"429"} :
       GeminiSettles(r, outcome)
  \/ Settle

SpecVision == Init /\ [][NextVision]_vars

\* requests without an image, from every client
NextText ==
  \/ \E r \in Reqs, ip \in Clients, message \in Messages :
       /\ arrivals < MaxTextRequests
       /\ Receive(r, ip, message, "", NoBase64, "")
       /\ arrivalTimes' = [arrivalTimes EXCEPT ![ip] = Append(@, now)]
  \/ Settle

SpecText == Init /\ [][NextText]_vars

(***************************************************************************)
(* The claims.                                                             *)
(***************************************************************************)
\* the handler that just returned, when there is one
returned == res[1]

\* C1: a handler that returns has sent exactly one reply, and the reply is a
\* string (not null, not empty, not an error): whatever the rate checks, the
\* validation and the providers did, no path of the handler ends without
\* res.json and none calls it twice.
C1_ExactlyOneReply ==
  Len(res) = 1 =>
    /\ Len(returned.replies) = 1
    /\ Truthy(returned.replies[1])

\* C1: both providers were called and both failed; the reply is the fallback
C1_Witness ==
  /\ Len(res) = 1
  /\ returned.geminiCalls = 1
  /\ returned.llamaCalls = 1
  /\ returned.replies = << FallbackReply >>

\* how many of the events are less than `interval` old
InWindow(events, interval) ==
  Cardinality({k \in 1..Len(events) : now - events[k] < interval})

\* C2 as amended: once TEXT_RATE_LIMIT text-class events of a client lie in the
\* trailing window (an event is recorded when a request is answered from the
\* knowledge base, by a provider or by the breaker's canned reply), the next
\* request of that client with a non-empty message gets the canned rate-limit
\* reply from bot.js 356, whatever its message.
C2_DeniedOnceLimitRecorded ==
  \A ip \in Clients, message \in Messages \ {""} :
    InWindow(textEvents[ip], TEXT_RATE_INTERVAL) >= TEXT_RATE_LIMIT =>
      LET e == Handler(ip, message, "", NoBase64, "")
      IN  e.returned /\ e.site = 356 /\ e.replies = << RateLimitReply >>

\* C2: a request was denied with TEXT_RATE_LIMIT events of its client in the
\* window
C2_Witness ==
  /\ Len(res) = 1
  /\ returned.site = 356
  /\ InWindow(textEvents[returned.ip], TEXT_RATE_INTERVAL) >= TEXT_RATE_LIMIT

\* C2 as stated: once a client has issued TEXT_RATE_LIMIT requests within one
\* window, its next request gets the canned rate-limit reply, whatever the
\* message and however the earlier requests ended.
C2_DeniedOnceLimitIssued ==
  \A ip \in Clients, message \in Messages :
    Len(arrivalTimes[ip]) >= TEXT_RATE_LIMIT =>
      Handler(ip, message, "", NoBase64, "").replies = << RateLimitReply >>

\* C3: the events recorded for a client and a class within one window are
\* never more than the limit of the class, whatever the interleaving.
C3_NeverMoreThanLimit ==
  \A ip \in Clients :
    /\ InWindow(textEvents[ip], TEXT_RATE_INTERVAL) <= TEXT_RATE_LIMIT
    /\ InWindow(imageEvents[ip], IMAGE_RATE_INTERVAL) <= IMAGE_RATE_LIMIT

\* step 3 of the handler, run now by a request of Client
TextStageNow ==
  TextStage([Idle EXCEPT !.ip = Client], userRequests, userImageRequests)

\* the run of step 3 clears the trip and starts a call of the text provider
ClearsAndCalls(e) ==
  /\ ~e.returned
  /\ e.rq.pc = "awaitLLaMA"
  /\ e.rq.llamaCalls = 1
  /\ e.rateLimitHit = FALSE
  /\ e.rateLimitHitTime = null

\* the run of step 3 starts no call of the text provider
StartsNoCall(e) ==
  e.returned /\ e.rq.llamaCalls = 0

\* C4 as amended: while an overload report is less than COOLDOWN old, a request
\* reaching the text stage starts no call of the text provider; once the most
\* recent report (a call already in flight may report again and restart the
\* cooldown) is COOLDOWN old, the first request reaching the text stage clears
\* the trip and calls the provider.
C4_CooldownFromLatestReport ==
  /\ \A t \in overloads : now - t < COOLDOWN => StartsNoCall(TextStageNow)
  /\ (overloads # {} /\ \A t \in overloads : now - t >= COOLDOWN) =>
       ClearsAndCalls(TextStageNow)

\* C4: the trip is set, the latest report is COOLDOWN old and an earlier
\* report is older still: the next request clears the trip
C4_Witness ==
  /\ rateLimitHit
  /\ Cardinality(overloads) = 2
  /\ \A t \in overloads : now - t >= COOLDOWN

\* C4 as stated: for every overload report at time t, no call starts before
\* t + COOLDOWN, and the first request reaching the text stage at or after
\* t + COOLDOWN clears the trip and calls the provider.
C4_CooldownFromEveryReport ==
  \A t \in overloads :
    IF now - t < COOLDOWN THEN StartsNoCall(TextStageNow)
    ELSE ClearsAndCalls(TextStageNow)

\* the similarity of a message and entry i of the knowledge base
Score(message, i) ==
  compareTwoStrings(toLowerCase(message), toLowerCase(faq[i].question))

\* the entries the message matches: loaded, best score, at or above threshold
Matched(message) ==
  {i \in 1..Len(faq) :
     /\ faqLoaded
     /\ Score(message, i) >= FAQ_MATCH_THRESHOLD
     /\ \A j \in 1..Len(faq) : Score(message, j) <= Score(message, i)}

\* the answers of the matched entries that have one
MatchedAnswers(message) ==
  {faq[i].answer : i \in {j \in Matched(message) : faq[j].answer # ""}}

\* the request carries an image
Attached(imageUrl, imageBase64) == imageUrl # "" \/ imageBase64 # NoBase64

\* the handler returned from bot.js 370 with one of the answers, recorded a
\* text event and called no provider
AnsweredFromFAQ(e, answers) ==
  /\ e.returned
  /\ e.site = 370
  /\ \E a \in answers : e.replies = << a >>
  /\ e.recordText
  /\ e.rq.geminiCalls = 0 /\ e.rq.llamaCalls = 0

\* C5 as amended: an admitted request whose message matches a knowledge entry
\* with an answer is answered with that answer and no provider is called,
\* whatever the keys, the validity of the image and the breaker, provided it
\* carries no image or the image budget of the client is not spent; with an
\* image and a spent image budget it gets the image rate-limit reply instead.
C5_FAQAnswerAfterBothRateChecks ==
  \A ip \in {Client}, message \in Messages, imageUrl \in ImageUrls,
     imageBase64 \in Base64s, imageMimeType \in MimeTypes :
    (/\ message # ""
     /\ InWindow(textEvents[ip], TEXT_RATE_INTERVAL) < TEXT_RATE_LIMIT
     /\ MatchedAnswers(message) # {}) =>
      LET e == Handler(ip, message, imageUrl, imageBase64, imageMimeType)
      IN  IF /\ Attached(imageUrl, imageBase64)
             /\ InWindow(imageEvents[ip], IMAGE_RATE_INTERVAL) >= IMAGE_RATE_LIMIT
          THEN e.returned /\ e.replies = << ImageRateLimitReply >>
          ELSE AnsweredFromFAQ(e, MatchedAnswers(message))

\* C5: a request with an image was answered from the knowledge base while
\* the breaker was tripped
C5_Witness ==
  /\ Len(res) = 1
  /\ returned.site = 370
  /\ returned.hasImage
  /\ rateLimitHit /\ now - rateLimitHitTime < COOLDOWN

\* C5 as stated: an admitted request whose message matches a knowledge entry
\* is answered with that entry's answer and no provider is called, whatever
\* the keys, the validity of the image and the breakers.
C5_FAQAnswerWhenAdmitted ==
  \A ip \in {Client}, message \in Messages, imageUrl \in ImageUrls,
     imageBase64 \in Base64s, imageMimeType \in MimeTypes :
    (/\ message # ""
     /\ InWindow(textEvents[ip], TEXT_RATE_INTERVAL) < TEXT_RATE_LIMIT
     /\ MatchedAnswers(message) # {}) =>
      AnsweredFromFAQ(Handler(ip, message, imageUrl, imageBase64, imageMimeType),
                      MatchedAnswers(message))

\* the declared type the image stage validates: image/jpeg when none is given
Declared(imageMimeType) ==
  IF imageMimeType = "" THEN "image/jpeg" ELSE imageMimeType

\* the request gets as far as the image stage with something to validate
EntersImageStage(ip, message, imageUrl, imageBase64, imageMimeType) ==
  /\ message # ""
  /\ ~isRateLimited(ip)
  /\ ~(Attached(imageUrl, imageBase64) /\ isImageRateLimited(ip))
  /\ ~Truthy(checkFAQ(message))
  /\ (Attached(imageUrl, imageBase64) \/ imageMimeType # "")

\* the handler returned with that message and has called no provider
Rejected(e, message) ==
  /\ e.returned
  /\ e.replies = << message >>
  /\ e.rq.geminiCalls = 0 /\ e.rq.llamaCalls = 0

\* the rejections the handler makes itself are terminal (bot.js 380-411): a
\* type outside jpeg, png and webp, then an inline image over the cap, then a
\* malformed URL, then a URL that is not http(s)
HandlerRejections ==
  \A ip \in {Client}, message \in Messages \ {""} :
    (~isRateLimited(ip) /\ ~Truthy(checkFAQ(message))) =>
      \A imageUrl \in ImageUrls, imageBase64 \in Base64s,
         imageMimeType \in MimeTypes :
        LET mime == Declared(imageMimeType)
            badType == mime \notin {"image/jpeg", "image/png", "image/webp"}
            tooLarge == DecodedLength(imageBase64) > maxSize
            malformed == imageUrl = "not a url"
            badProtocol == imageUrl = "ftp://cdn.example/a.png"
            message_ == CASE badType -> UnsupportedTypeReply(mime)
                          [] ~badType /\ tooLarge -> ImageTooLargeReply
                          [] ~badType /\ ~tooLarge /\ malformed ->
                               InvalidUrlFormatReply
                          [] OTHER -> InvalidUrlProtocolReply
        IN  (/\ EntersImageStage(ip, message, imageUrl, imageBase64,
                                 imageMimeType)
             /\ (badType \/ tooLarge \/ malformed \/ badProtocol)) =>
              Rejected(Handler(ip, message, imageUrl, imageBase64,
                               imageMimeType), message_)

\* a fetched image over the cap is terminal: callGemini hands its size
\* message to the handler, which replies with it (bot.js 156-158, 421-426)
RemoteTooLargeRejected ==
  \A r \in Reqs, o \in ImageFetchOutcomes :
    (req[r].pc = "awaitImage" /\ o.kind = "ok" /\ o.size > maxSize) =>
      Rejected(ImageFetched(req[r], o), GeminiTooLargeReply)

\* C6 as amended: an unsupported type, an inline image over the cap, a
\* malformed URL, a URL that is not http(s) and a fetched image over the cap
\* are terminal: the reply is the rejection's message and no provider is
\* called.  A failed fetch of the image is not terminal: the handler goes on
\* to the text stage as after an empty vision answer.
C6_RejectionsTerminalButFetchFailure ==
  /\ HandlerRejections
  /\ RemoteTooLargeRejected
  /\ \A r \in Reqs, o \in ImageFetchOutcomes :
       (req[r].pc = "awaitImage" /\ o.kind # "ok") =>
         ImageFetched(req[r], o)
           = TextStage(req[r], userRequests, userImageRequests)

\* C6: a request was rejected for the protocol of its image URL
C6_Witness ==
  /\ Len(res) = 1
  /\ returned.replies = << InvalidUrlProtocolReply >>
  /\ returned.geminiCalls = 0 /\ returned.llamaCalls = 0

\* C6 as stated: all the image rejections, the failed fetch of the image
\* among them, are terminal: the handler returns without calling a provider
\* and without falling through to the text stage.
C6_AllRejectionsTerminal ==
  /\ HandlerRejections
  /\ RemoteTooLargeRejected
  /\ \A r \in Reqs, o \in ImageFetchOutcomes :
       (req[r].pc = "awaitImage" /\ o.kind # "ok") =>
         LET e == ImageFetched(req[r], o)
         IN  /\ e.returned
             /\ e.site \notin {444, 454}
             /\ e.rq.geminiCalls = 0 /\ e.rq.llamaCalls = 0

\* the replies that report an image over the cap
SizeErrorReplies == {ImageTooLargeReply, GeminiTooLargeReply}

\* C7: no image over the cap is forwarded to the vision provider: every part
\* a handler has built is within the cap, and a request whose inline or
\* fetched image is over the cap is answered with a size-error message.
C7_NoOversizeForwarded ==
  /\ \A r \in Reqs : \A k \in 1..Len(req[r].parts) :
       req[r].parts[k].size <= maxSize
  /\ \A ip \in {Client}, message \in Messages, imageUrl \in ImageUrls,
        imageBase64 \in Base64s, imageMimeType \in MimeTypes :
       (/\ EntersImageStage(ip, message, imageUrl, imageBase64, imageMimeType)
        /\ Declared(imageMimeType) \in allowedTypes
        /\ DecodedLength(imageBase64) > maxSize) =>
         LET e == Handler(ip, message, imageUrl, imageBase64, imageMimeType)
         IN  /\ e.returned
             /\ \E m \in SizeErrorReplies : e.replies = << m >>
             /\ e.rq.geminiCalls = 0
  /\ \A r \in Reqs, o \in ImageFetchOutcomes :
       (req[r].pc = "awaitImage" /\ o.kind = "ok" /\ o.size > maxSize) =>
         LET e == ImageFetched(req[r], o)
         IN  /\ e.returned
             /\ \E m \in SizeErrorReplies : e.replies = << m >>
             /\ e.rq.geminiCalls = 0

\* C7: a fetched image over the cap was answered with the size message, and
\* nothing was sent to the vision provider
C7_Witness ==
  /\ Len(res) = 1
  /\ returned.replies = << GeminiTooLargeReply >>
  /\ returned.geminiCalls = 0

\* the breaker of the text provider is tripped and its cooldown is running
Tripped == rateLimitHit /\ now - rateLimitHitTime < COOLDOWN

\* the runs of the handler that reach the text stage now: a request without
\* image fields that the rate check admits and the knowledge base does not
\* answer, an image fetch that fails, a vision call that gives no answer
TextStageEntries ==
  {Handler(Client, message, "", NoBase64, "") :
     message \in {m \in Messages \ {""} :
                    ~isRateLimited(Client) /\ ~Truthy(checkFAQ(m))}}
  \cup {ImageFetched(req[r], o) :
          r \in {q \in Reqs : req[q].pc = "awaitImage"},
          o \in {i \in ImageFetchOutcomes : i.kind # "ok"}}
  \cup {GeminiFetched(req[r], o) :
          r \in {q \in Reqs : req[q].pc = "awaitGemini"},
          o \in GeminiOutcomes \ {"okText"}}

\* C8 as amended: while the breaker is tripped, a request reaching the text
\* stage does not call the text provider; its reply is the canned "Service
\* temporarily limited" message that callLLaMA returns, sent from bot.js 444.
C8_TrippedRepliesServiceLimited ==
  Tripped =>
    \A e \in TextStageEntries :
      /\ e.returned
      /\ e.rq.llamaCalls = 0
      /\ e.site = 444
      /\ e.replies = << BreakerReply >>

\* C8: a request was answered by the tripped breaker without a call of the
\* text provider
C8_Witness ==
  /\ Len(res) = 1
  /\ Tripped
  /\ returned.replies = << BreakerReply >>
  /\ returned.llamaCalls = 0

\* C8 as stated: while the breaker is tripped, a request reaching the text
\* stage does not call the text provider and gets the static fallback reply.
C8_TrippedRepliesFallback ==
  Tripped =>
    \A e \in TextStageEntries :
      /\ e.returned
      /\ e.rq.llamaCalls = 0
      /\ e.replies = << FallbackReply >>

\* an error or an empty answer of the vision provider sends the handler on
\* to the text stage
VisionFailureGoesToText ==
  \A r \in Reqs, o \in GeminiOutcomes \ {"okText"} :
    req[r].pc = "awaitGemini" =>
      GeminiFetched(req[r], o)
        = TextStage(req[r], userRequests, userImageRequests)

\* an error or an empty answer of the text provider leads to the fallback
TextFailureGivesFallback ==
  \A r \in Reqs :
    /\ req[r].pc = "awaitLLaMA" =>
         LLaMAFetched(req[r], "throw").replies = << FallbackReply >>
    /\ req[r].pc = "awaitLLaMAText" =>
         LLaMAErrorRead(req[r]).replies = << FallbackReply >>
    /\ req[r].pc = "awaitLLaMAJson" =>
         \A o \in {"throw", "empty"} :
           LLaMAJsonRead(req[r], o).replies = << FallbackReply >>

\* a handler that has called the vision provider serves a request with an
\* image
NoVisionCallWithoutImage ==
  /\ \A r \in Reqs : req[r].geminiCalls > 0 => req[r].hasImage
  /\ (Len(res) = 1 /\ returned.geminiCalls > 0) => returned.hasImage

\* C9: (1) an error or an empty answer of the vision provider sends the
\* handler on to the text stage; (2) an error or an empty answer of the text
\* provider leads to the static fallback reply; (3) without an image the
\* vision provider is not called at all.
C9_FallbackOrdering ==
  /\ VisionFailureGoesToText
  /\ TextFailureGivesFallback
  /\ NoVisionCallWithoutImage

\* C10: a request of a client in a class is admitted exactly when fewer than
\* the limit of that class of its events lie in the trailing window; events
\* a full window old no longer count.
C10_AdmittedIffFewerThanLimit ==
  \A ip \in Clients :
    /\ ~isRateLimited(ip)
         <=> InWindow(textEvents[ip], TEXT_RATE_INTERVAL) < TEXT_RATE_LIMIT
    /\ ~isImageRateLimited(ip)
         <=> InWindow(imageEvents[ip], IMAGE_RATE_INTERVAL) < IMAGE_RATE_LIMIT

\* C10: a client that had spent its text budget is admitted again, its
\* events having left the window
C10_Witness ==
  \E ip \in Clients :
    /\ Len(textEvents[ip]) >= TEXT_RATE_LIMIT
    /\ InWindow(textEvents[ip], TEXT_RATE_INTERVAL) = 0
    /\ ~isRateLimited(ip)

\* C11: the budgets are isolated per client and class: a step that records
\* no event of a client in a class, at an unchanged clock, leaves the
\* admission of that client in that class as it was, whatever another client
\* did and whatever was recorded for the client in the other class.
C11_BudgetsIsolated ==
  [][\A ip \in Clients :
       now' = now =>
         /\ textEvents'[ip] = textEvents[ip] =>
              isRateLimited(ip)' = isRateLimited(ip)
         /\ imageEvents'[ip] = imageEvents[ip] =>
              isImageRateLimited(ip)' = isImageRateLimited(ip)]_vars

\* C11: one client has spent its image budget and is still admitted for
\* text, while the other, answered with an image too, has its own counts
C11_Witness ==
  \E a, b \in Clients :
    /\ a # b
    /\ isImageRateLimited(a) /\ ~isRateLimited(a)
    /\ InWindow(imageEvents[b], IMAGE_RATE_INTERVAL) > 0
    /\ Len(textEvents[b]) > Len(imageEvents[b])

\* the least of a set of numbers
Least(S) == CHOOSE x \in S : \A y \in S : x <= y

\* C12: checkFAQ returns the answer of the entry with the greatest score
\* against the lower-cased query, the lowest index winning a tie, exactly
\* when that score is at least the threshold, and none otherwise; the result
\* is a function of the query and the knowledge base alone.
C12_BestMatchAtOrAboveThreshold ==
  \A q \in Queries :
    checkFAQ(q) = IF Matched(q) = {} THEN none
                  ELSE faq[Least(Matched(q))].answer

\* C12: a request was answered with the first of two entries that tie, and
\* a query scoring exactly the threshold matches while one below does not
C12_Witness ==
  /\ Len(res) = 1
  /\ returned.site = 370
  /\ Cardinality(Matched("Hours")) = 2
  /\ returned.replies = << faq[1].answer >>
  /\ Matched("pricked") = {2}
  /\ Matched("prim") = {}

\* the lines a reply of steps 2 and 3 is sent from
ProviderStageSites == {380, 392, 405, 411, 426, 444, 454}

C14_EveryRequestReplied ==
  \A r \in Reqs : (req[r].pc # "idle") ~> (req[r].pc = "idle")

\* the replies that report a rejected image
ValidationReplies ==
  {UnsupportedTypeReply(Declared(m)) : m \in MimeTypes}
  \cup {ImageTooLargeReply, GeminiTooLargeReply, InvalidUrlProtocolReply,
        InvalidUrlFormatReply}

\* the replies that answer the question: from the knowledge base (bot.js
\* 370), from the vision provider, from the text provider
AnswersRecorded ==
  Len(res) = 1 =>
    /\ returned.site = 370 => returned.recordText /\ ~returned.recordImage
    /\ returned.replies = << GeminiText >> =>
         returned.recordText /\ returned.recordImage
    /\ returned.replies = << LLaMAText >> =>
         returned.recordText /\ ~returned.recordImage

\* the replies that answer nothing record nothing
OnlyAnswersRecorded ==
  (/\ Len(res) = 1
   /\ returned.site # 370
   /\ \E m \in {NoMessageReply, RateLimitReply, ImageRateLimitReply,
                BreakerReply, FallbackReply} \cup ValidationReplies :
        returned.replies = << m >>) =>
    ~returned.recordText /\ ~returned.recordImage

\* C15: events are recorded exactly on the answer paths: one text event for
\* an answer of the knowledge base, one text and one image event for an
\* answer of the vision provider, one text event for an answer of the text
\* provider, and none for a rate-limit reply, a validation message, the
\* reply of the tripped or overloaded breaker, or the fallback.
C15_RecordedExactlyOnAnswers ==
  AnswersRecorded /\ OnlyAnswersRecorded

\* the flag of the breaker is set exactly when its time is
FlagAndTimeAgree == rateLimitHit <=> rateLimitHitTime # null

\* a step inside callLLaMA: a handler starts the call of the text provider,
\* or the handler that awaited it returns
InCallLLaMA ==
  \E r \in Reqs :
    \/ req[r].pc # "awaitLLaMA" /\ req'[r].pc = "awaitLLaMA"
    \/ req[r].pc = "awaitLLaMA" /\ req'[r].pc = "idle"

\* C16: in every state, under any interleaving, rateLimitHit = TRUE implies
\* that rateLimitHitTime is set, and rateLimitHit = FALSE (at the start and
\* after a reset) that it is null; the two change only inside callLLaMA.
C16_BreakerConsistent ==
  [][/\ FlagAndTimeAgree
     /\ FlagAndTimeAgree'
     /\ << rateLimitHit, rateLimitHitTime >>' # << rateLimitHit, rateLimitHitTime >>
          => InCallLLaMA]_vars

\* C16: the breaker is tripped at a set time, its cooldown is over, a call is
\* in flight, and the request that reaches the text stage now resets both
C16_Witness ==
  /\ rateLimitHit /\ rateLimitHitTime # null
  /\ now - rateLimitHitTime >= COOLDOWN
  /\ \E r \in Reqs : req[r].pc = "awaitLLaMA"
  /\ ~TextStageNow.rateLimitHit /\ TextStageNow.rateLimitHitTime = null

\* what the 429 of the text provider does to the breaker and to the request
\* that got it: the breaker is tripped at the present time, the provider was
\* called once, and the handler returns with the given reply
OverloadReported(reply) ==
  \A r \in Reqs :
    req[r].pc = "awaitLLaMA" =>
      LET e == LLaMAFetched(req[r], "429")
      IN  /\ e.rateLimitHit /\ e.rateLimitHitTime = now
          /\ e.returned
          /\ e.rq.llamaCalls = 1
          /\ e.replies = << reply >>

\* C17 as amended: a 429 of the text provider trips the breaker with
\* rateLimitHitTime = now, the provider is not called again for the request,
\* and the reply is the canned "Service temporarily limited" message that
\* callLLaMA returns.
C17_OverloadRepliesServiceLimited == OverloadReported(BreakerReply)

\* C17: a request got the 429 at a time after the start, and its reply
C17_Witness ==
  /\ Len(res) = 1
  /\ returned.llamaCalls = 1
  /\ returned.replies = << BreakerReply >>
  /\ rateLimitHit /\ rateLimitHitTime = now /\ now > 0

\* C17 as stated: a 429 of the text provider trips the breaker with
\* trippedAt = now, the provider is not retried, and the reply is the static
\* fallback message.
C17_OverloadRepliesFallback == OverloadReported(FallbackReply)

\* C18: the vision provider has a breaker of its own: for COOLDOWN after a
\* 429 of the vision provider, a request with a valid image does not call the
\* vision provider and goes straight to the text stage.
C18_VisionBreaker ==
  (\E t \in visionOverloads : now - t < COOLDOWN) =>
    /\ (/\ ~isRateLimited(Client) /\ ~isImageRateLimited(Client)
        /\ ~Truthy(checkFAQ("joke"))) =>
         \A imageBase64 \in {b \in Base64s : /\ b # NoBase64
                                             /\ DecodedLength(b) <= maxSize} :
           LET e == Handler(Client, "joke", "", imageBase64, "")
           IN  e.rq.geminiCalls = 0 /\ ReachedTextStage(e)
    /\ \A r \in Reqs, o \in ImageFetchOutcomes :
         (req[r].pc = "awaitImage" /\ o.kind = "ok" /\ o.size <= maxSize) =>
           LET e == ImageFetched(req[r], o)
           IN  e.rq.geminiCalls = 0 /\ ReachedTextStage(e)

\* only a request that carries an image is in the image stage: it fetches
\* its image, or it has called the vision provider
ImageStageOnlyWithImage ==
  \A r \in Reqs :
    (req[r].pc \in {"awaitImage", "awaitGemini"} \/ req[r].geminiCalls > 0)
      => req[r].hasImage

\* a request with an image of a client whose image budget is spent, whose
\* message matches nothing, gets the image rate-limit reply and calls no
\* provider
SpentImageBudgetDenied ==
  InWindow(imageEvents[Client], IMAGE_RATE_INTERVAL) >= IMAGE_RATE_LIMIT =>
    \A message \in Messages \ {""} :
      (~isRateLimited(Client) /\ MatchedAnswers(message) = {}) =>
        \A imageUrl \in ImageUrls, imageBase64 \in Base64s,
           imageMimeType \in MimeTypes :
          Attached(imageUrl, imageBase64) =>
            Rejected(Handler(Client, message, imageUrl, imageBase64,
                             imageMimeType), ImageRateLimitReply)

\* an image event is recorded only for a request that carries an image, which
\* is the kind of request the image rate check of bot.js 359 tests
ImageEventOnlyAfterCheck ==
  (Len(res) = 1 /\ returned.recordImage) => returned.hasImage

\* C19: the image stage is entered, and the vision provider called, only for
\* a request that carries an image and passed the image rate check; a request
\* with an image of a client whose image budget is spent gets the image
\* rate-limit reply and no provider call; an image event is never recorded
\* for a request that did not pass the check.
C19_ImageStageOnlyAfterImageCheck ==
  /\ ImageStageOnlyWithImage
  /\ SpentImageBudgetDenied
  /\ ImageEventOnlyAfterCheck

\* the image parts of the calls of the vision provider that are in flight
Forwarded ==
  UNION {{req[r].parts[k] : k \in 1..Len(req[r].parts)} :
           r \in {q \in Reqs : req[q].pc = "awaitGemini"}}

\* an inline image is forwarded with a type of the allow list
InlineTypeAllowed ==
  \A part \in Forwarded :
    part.source = "imageBase64" =>
      part.mime_type \in {"image/jpeg", "image/png", "image/webp"}

\* C20: every image forwarded to the vision provider has a media type of the
\* allow list, inline and fetched alike, and a call carries the image of one
\* source, the URL or the inline bytes, not of both.
C20_ForwardedTypeAllowedOneSource ==
  /\ \A part \in Forwarded :
       part.mime_type \in {"image/jpeg", "image/png", "image/webp"}
  /\ \A r \in Reqs : req[r].pc = "awaitGemini" => Len(req[r].parts) <= 1

\* the runs of the handler that a request of Client arriving now may make,
\* each with an admit check of the text class
ArrivalRuns ==
  {Handler(Client, message, imageUrl, imageBase64, imageMimeType) :
     message \in Messages \ {""}, imageUrl \in ImageUrls,
     imageBase64 \in Base64s, imageMimeType \in MimeTypes}

\* the runs that the handlers in flight may make when their awaits settle
ResumedRuns ==
  UNION {CASE req[r].pc = "awaitImage" ->
                {ImageFetched(req[r], o) : o \in ImageFetchOutcomes}
           [] req[r].pc = "awaitGemini" ->
                {GeminiFetched(req[r], o) : o \in GeminiOutcomes}
           [] req[r].pc = "awaitLLaMA" ->
                {LLaMAFetched(req[r], o) : o \in LLaMAFetchOutcomes}
           [] req[r].pc = "awaitLLaMAText" -> {LLaMAErrorRead(req[r])}
           [] req[r].pc = "awaitLLaMAJson" ->
                {LLaMAJsonRead(req[r], o) : o \in LLaMAJsonOutcomes}
           [] OTHER -> {} : r \in Reqs}

\* the timestamps a Map stores for a client
Stored(map, ip) == IF ip \in DOMAIN map THEN map[ip] ELSE << >>

\* all the timestamps are less than the interval old
Fresh(timestamps, interval) ==
  \A k \in 1..Len(timestamps) : now - timestamps[k] < interval

\* after a record the stored timestamps of the client are within the window
FreshAfterRecord ==
  \A e \in ArrivalRuns \cup ResumedRuns :
    /\ e.recordText =>
         Fresh(Stored(e.userRequests, e.rq.ip), TEXT_RATE_INTERVAL)
    /\ e.recordImage =>
         Fresh(Stored(e.userImageRequests, e.rq.ip), IMAGE_RATE_INTERVAL)

\* C21 as amended: after a record the stored timestamps of that client and
\* class are all within the window; an admit check filters a copy and leaves
\* the stored timestamps as they were, older ones included, until the next
\* record of that client and class.
C21_PrunedOnRecordOnly ==
  /\ FreshAfterRecord
  /\ \A e \in ArrivalRuns \cup ResumedRuns :
       /\ ~e.recordText =>
            Stored(e.userRequests, e.rq.ip) = Stored(userRequests, e.rq.ip)
       /\ ~e.recordImage =>
            Stored(e.userImageRequests, e.rq.ip)
              = Stored(userImageRequests, e.rq.ip)

\* C21: a request was checked and replied to without a record, and a
\* timestamp a full window old is still stored for its client
C21_Witness ==
  /\ Len(res) = 1
  /\ ~returned.recordText
  /\ returned.site \notin {350}
  /\ ~Fresh(Stored(userRequests, returned.ip), TEXT_RATE_INTERVAL)

\* C21 as stated: after an admit check or a record, the stored timestamps of
\* that client and class are all within the window.
C21_PrunedOnEveryAccess ==
  /\ FreshAfterRecord
  /\ \A e \in ArrivalRuns :
       /\ Fresh(Stored(e.userRequests, e.rq.ip), TEXT_RATE_INTERVAL)
       /\ (e.rq.hasImage /\ e.site # 356) =>
            Fresh(Stored(e.userImageRequests, e.rq.ip), IMAGE_RATE_INTERVAL)

\* the runs of the handler that a request with a message arriving now may
\* make, from every client, with and without an image
KeyRuns ==
  {Handler(ip, message, imageUrl, NoBase64, "") :
     ip \in Clients, message \in {"Hours", "joke"},
     imageUrl \in {"", "https://cdn.example/a.png"}}

\* the timestamps of every client but ip are the same in both Maps
OthersKept(after, map, ip) ==
  \A c \in Clients \ {ip} : Stored(after, c) = Stored(map, c)

\* C22: a run of the handler that makes the admit checks and records nothing
\* leaves the timestamps of every client and class as they were, whether the
\* check admitted or denied; a run that goes on to record stores what
\* the update alone makes of the timestamps stored before the check.
C22_CheckRecordsNothing ==
  \A e \in KeyRuns :
    /\ OthersKept(e.userRequests, userRequests, e.rq.ip)
    /\ OthersKept(e.userImageRequests, userImageRequests, e.rq.ip)
    /\ Stored(e.userRequests, e.rq.ip)
         = IF e.recordText
           THEN Filter(Append(Stored(userRequests, e.rq.ip), now), now,
                       TEXT_RATE_INTERVAL)
           ELSE Stored(userRequests, e.rq.ip)
    /\ Stored(e.userImageRequests, e.rq.ip)
         = Stored(userImageRequests, e.rq.ip)

\* C22: a check denied a client with recorded timestamps, and the check
\* admits a request of another client
C22_Witness ==
  /\ Len(res) = 1
  /\ returned.site \in {356, 361}
  /\ Len(Stored(userRequests, returned.ip)) > 0
  /\ \E e \in KeyRuns : ~e.returned /\ e.rq.ip # returned.ip

\* C23: a request with a message that the text rate check denies is
\* answered with the rate-limit reply and its handler returns at once: no
\* FAQ answer is given, no provider is called, nothing is recorded, and the
\* stored timestamps of every client and class and the breaker stay as they
\* were.
C23_TextDenialEndsRequest ==
  \A e \in KeyRuns :
    isRateLimited(e.rq.ip) =>
      /\ e.returned
      /\ e.site = 356
      /\ e.replies = << RateLimitReply >>
      /\ e.rq.geminiCalls = 0 /\ e.rq.llamaCalls = 0
      /\ e.rq.parts = << >>
      /\ ~e.recordText /\ ~e.recordImage
      /\ \A c \in Clients :
           /\ Stored(e.userRequests, c) = Stored(userRequests, c)
           /\ Stored(e.userImageRequests, c) = Stored(userImageRequests, c)
      /\ e.rateLimitHit = rateLimitHit
      /\ e.rateLimitHitTime = rateLimitHitTime

\* C23: the text rate check denied a request while the FAQ was loaded with
\* entries and the text provider was configured
C23_Witness ==
  /\ Len(res) = 1
  /\ returned.site = 356
  /\ returned.replies = << RateLimitReply >>
  /\ faqLoaded /\ Len(faq) > 0
  /\ OPENROUTER_API_KEY
  /\ req = [r \in Reqs |-> Idle]

\* C24: while the handler of one request is suspended on a provider call
\* that never returns, the handler of every other request in flight goes
\* on: it comes to its reply, unless its own provider call never returns
\* either.
C24_HungRequestBlocksNoOther ==
  \A q \in Reqs : \A r \in Reqs \ {q} :
    (req[q].pc = "awaitForever" /\ req[r].pc \notin {"idle", "awaitForever"})
      ~> (req[r].pc \in {"idle", "awaitForever"})

\* C24: the first request is suspended for ever, and a later one has been
\* answered by the text provider
C24_Witness ==
  /\ req[1].pc = "awaitForever"
  /\ Len(res) = 1
  /\ returned.site = 444
  /\ returned.llamaCalls = 1

\* the handlers in flight and the one that just returned
Handled ==
  {req[r] : r \in {q \in Reqs : req[q].pc # "idle"}}
    \cup {returned : k \in 1..Len(res)}

\* C25: within one request each provider is called at most once; while the
\* vision call (the fetch of the image and the fetch of Gemini) is awaited
\* the text provider has not been called, and when the text provider is
\* awaited the vision call is over; a request that Gemini answers with a text
\* is replied to at once, from bot.js 426, without a call of the text
\* provider.
C25_VisionThenTextOnceEach ==
  /\ \A h \in Handled : h.geminiCalls <= 1 /\ h.llamaCalls <= 1
  /\ \A r \in Reqs :
       /\ req[r].pc \in {"awaitImage", "awaitGemini"} => req[r].llamaCalls = 0
       /\ req[r].pc \in {"awaitLLaMA", "awaitLLaMAText", "awaitLLaMAJson"} =>
            req[r].llamaCalls = 1
       /\ req[r].pc = "awaitGemini" =>
            LET e == GeminiFetched(req[r], "okText")
            IN  /\ e.returned /\ e.site = 426
                /\ e.replies = << GeminiText >>
                /\ e.rq.llamaCalls = 0
  /\ (Len(res) = 1 /\ returned.site = 426) =>
       returned.geminiCalls <= 1 /\ returned.llamaCalls = 0

\* C25: a request was answered by the text provider after its one vision call
\* had given no reply
C25_Witness ==
  /\ Len(res) = 1
  /\ returned.site = 444
  /\ returned.geminiCalls = 1
  /\ returned.llamaCalls = 1

\* the n-th newest of the events, which are in the order of their times
NthNewest(events, n) == events[Len(events) - n + 1]

\* a client is denied from its limit-th newest event until that event is a
\* full interval old
DeniedUntilNthNewestLeaves(limited, events, limit, interval) ==
  limited <=> /\ Len(events) >= limit
              /\ now - NthNewest(events, limit) < interval

\* the events of a class are old enough to leave the window before the
\* clock of the model stops
LeaveInTime(events, interval) ==
  \A k \in 1..Len(events) : events[k] + interval <= MaxTime

\* C26: a denial ends with the passing of time alone: a client is denied in
\* a class exactly from the record of the event that fills its budget until
\* the limit-th newest of its events is a full window old, and a client that
\* is denied and records no further event is admitted again.
C26_DenialIsTemporary ==
  /\ [](\A ip \in Clients :
          /\ DeniedUntilNthNewestLeaves(isRateLimited(ip), textEvents[ip],
                                        TEXT_RATE_LIMIT, TEXT_RATE_INTERVAL)
          /\ DeniedUntilNthNewestLeaves(isImageRateLimited(ip), imageEvents[ip],
                                        IMAGE_RATE_LIMIT, IMAGE_RATE_INTERVAL))
  /\ \A n \in 0..MaxRequests :
       /\ (/\ isRateLimited(Client)
           /\ Len(textEvents[Client]) = n
           /\ LeaveInTime(textEvents[Client], TEXT_RATE_INTERVAL))
            ~> (~isRateLimited(Client) \/ Len(textEvents[Client]) > n)
       /\ (/\ isImageRateLimited(Client)
           /\ Len(imageEvents[Client]) = n
           /\ LeaveInTime(imageEvents[Client], IMAGE_RATE_INTERVAL))
            ~> (~isImageRateLimited(Client) \/ Len(imageEvents[Client]) > n)

\* C26: a client whose text budget was spent is admitted at the very time at
\* which the event that filled the budget is a full window old
C26_Witness ==
  /\ Len(textEvents[Client]) >= TEXT_RATE_LIMIT
  /\ textEvents[Client][Len(textEvents[Client])]
       - NthNewest(textEvents[Client], TEXT_RATE_LIMIT) < TEXT_RATE_INTERVAL
  /\ now = NthNewest(textEvents[Client], TEXT_RATE_LIMIT) + TEXT_RATE_INTERVAL
  /\ ~isRateLimited(Client)

\* a 429 for any call in flight sets the time of the breaker to the present
\* time, whether the breaker is tripped or not
EveryOverloadSetsTime ==
  \A r \in Reqs :
    req[r].pc = "awaitLLaMA" =>
      LET e == LLaMAFetched(req[r], "429")
      IN  e.rateLimitHit /\ e.rateLimitHitTime = now

\* C27 as amended: while the breaker is tripped its time is moved only by a
\* further 429, and every 429 moves it to the time at which it comes: a call
\* started before the trip that gets its 429 after it restarts the cooldown,
\* and the provider is called again one cooldown after the latest 429.
C27_TimeMovedByEveryOverload ==
  [][/\ EveryOverloadSetsTime
     /\ (rateLimitHit /\ rateLimitHit' /\ rateLimitHitTime' # rateLimitHitTime) =>
          /\ \E r \in Reqs : req[r].pc = "awaitLLaMA" /\ req'[r].pc = "idle"
          /\ rateLimitHitTime' = now
          /\ now \in overloads']_vars

\* C27: the breaker tripped, and a call that was in flight got a 429 later,
\* within the cooldown: the time of the breaker is that of the later 429
C27_Witness ==
  /\ rateLimitHit
  /\ \E t \in overloads :
       t < rateLimitHitTime /\ rateLimitHitTime - t < COOLDOWN
  /\ rateLimitHitTime \in overloads

\* C27 as stated: while the breaker is tripped its time is never moved.
C27_TimeNeverMovedWhileTripped ==
  [][(rateLimitHit /\ rateLimitHit') => rateLimitHitTime' = rateLimitHitTime]_vars

====
